---- MODULE Spec2Model ----
(***************************************************************************)
(* PRCLZ topology core: the PlanarGraph of prclz/i_topology.py (vertices   *)
(* keyed by coordinates, weighted edges, terminal / steiner flags, edge    *)
(* splitting, closest-edge insertion) and the two Steiner approximations   *)
(* (igraph_steiner_tree of i_topology.py, steiner_tree of steiner_tree.py).*)
(*                                                                         *)
(* The graph is the igraph one: vertices and edges are numbered in         *)
(* insertion order, an undirected edge reports its endpoints as (smaller   *)
(* vertex index, larger vertex index), deleting edges renumbers the later  *)
(* ones, and igraph itself allows self-loops.                              *)
(***************************************************************************)
EXTENDS Integers, Sequences, FiniteSets, TLC

VARIABLES vs, es, err, last, steiner_edge_idxs

vars == <<vs, es, err, last, steiner_edge_idxs>>

(***************************************************************************)
(* Bounds of the model.                                                    *)
(***************************************************************************)
MaxEdges == 2
MaxWeight == 3

\* Coordinates of the vertices handed to add_node, add_edge and
\* split_edge_by_node: three points of one street line.
LinePoints == {<<0, 0>>, <<1, 0>>, <<2, 0>>}

\* Coordinates handed to add_node_to_closest_edge: the street line and the
\* points one unit off it.
QueryPoints == LinePoints \cup {<<p[1], 1>> : p \in LinePoints}

\* "weight" not in kwargs: no weight was handed to add_edge
NoWeight == -1

\* Weights handed to add_edge: none (Euclidean default) or an explicit one.
CallWeights == {NoWeight, MaxWeight}

\* add_edge called without a weight
DefaultWeights == {NoWeight}

(***************************************************************************)
(* Arithmetic helpers.                                                     *)
(***************************************************************************)
Abs(n) == IF n < 0 THEN -n ELSE n

Sign(n) == IF n < 0 THEN -1 ELSE IF n > 0 THEN 1 ELSE 0

Range(s) == {s[i] : i \in 1..Len(s)}

\* np.sqrt; the model takes roots of perfect squares only (all vertices lie
\* on one axis-parallel line), where the floating-point result is exact
Sqrt(n) == CHOOSE r \in 0..n : r * r = n

\* np.sum((a0-a1)**2)
SumSq(a0, a1) == (a0[1] - a1[1]) * (a0[1] - a1[1]) + (a0[2] - a1[2]) * (a0[2] - a1[2])

distance(a0, a1) == Sqrt(SumSq(a0, a1))

(***************************************************************************)
(* PlanarGraph state helpers.  A graph value is [vs, es, err].             *)
(***************************************************************************)
\* self.vs.select(name=coords): the indices of the vertices named coords
SelectName(V, coords) == {i \in 1..Len(V) : V[i].name = coords}

\* self.es.select(_between=(v0, v1)): the indices of the edges with one
\* endpoint in v0 and the other in v1
SelectBetween(E, v0, v1) ==
    {k \in 1..Len(E) : \/ E[k].source \in v0 /\ E[k].target \in v1
                       \/ E[k].target \in v0 /\ E[k].source \in v1}

\* igraph Graph.delete_edges: the remaining edges keep their order
DeleteEdges(E, idxs) ==
    LET keep == {k \in 1..Len(E) : k \notin idxs}
        F[k \in 0..Len(E)] ==
            IF k = 0 THEN <<>>
            ELSE IF k \in keep THEN Append(F[k - 1], E[k]) ELSE F[k - 1]
    IN F[Len(E)]

Min(a, b) == IF a <= b THEN a ELSE b

Max(a, b) == IF a >= b THEN a ELSE b

\* edge.is_loop()
IsLoop(e) == e.source = e.target

\* add_node without the look-up of the coordinates: always a new vertex
add_node_append(G, coords, terminal) ==
    [G EXCEPT !.vs = Append(G.vs, [name |-> coords, terminal |-> terminal])]

\* PlanarGraph.add_node
add_node(G, coords, terminal) ==
    IF Len(G.vs) = 0
    THEN [G EXCEPT !.vs = Append(G.vs, [name |-> coords, terminal |-> terminal])]
    ELSE LET seq == SelectName(G.vs, coords) IN
         IF Cardinality(seq) = 0
         THEN [G EXCEPT !.vs = Append(G.vs, [name |-> coords, terminal |-> terminal])]
         ELSE IF Cardinality(seq) = 1
         THEN [G EXCEPT !.vs = [i \in 1..Len(G.vs) |->
                                  IF i \in seq
                                  THEN [G.vs[i] EXCEPT !.terminal = terminal]
                                  ELSE G.vs[i]]]
         ELSE [G EXCEPT !.err = "AssertionError"]

\* the first vertex of a non-empty VertexSeq (v0[0])
First(idxs) == CHOOSE i \in idxs : \A j \in idxs : i <= j

\* igraph Graph.add_edge(v0, v1, **kwargs) on an undirected graph
NewEdge(a, b, weight) ==
    [source |-> Min(a, b), target |-> Max(a, b), weight |-> weight, steiner |-> FALSE]

\* add_edge that stores the weight of a later call in the existing edge
add_edge_overwrite(G, coords0, coords1, terminal0, terminal1, weight) ==
    LET G2 == add_node(add_node(G, coords0, terminal0), coords1, terminal1)
        v0 == SelectName(G2.vs, coords0)
        v1 == SelectName(G2.vs, coords1)
        edge_seq == SelectBetween(G2.es, v0, v1)
        w == IF weight = NoWeight THEN distance(coords0, coords1) ELSE weight
    IN  IF Cardinality(edge_seq) = 0
        THEN [G2 EXCEPT !.es = Append(G2.es, NewEdge(First(v0), First(v1), w))]
        ELSE [G2 EXCEPT !.es = [k \in 1..Len(G2.es) |->
                 IF k \in edge_seq THEN [G2.es[k] EXCEPT !.weight = w] ELSE G2.es[k]]]

\* PlanarGraph.add_edge
add_edge(G, coords0, coords1, terminal0, terminal1, weight) ==
    LET G1 == add_node(G, coords0, terminal0) IN
    IF G1.err # "ok" THEN G1 ELSE
    LET G2 == add_node(G1, coords1, terminal1) IN
    IF G2.err # "ok" THEN G2 ELSE
    LET v0 == SelectName(G2.vs, coords0)
        v1 == SelectName(G2.vs, coords1)
        edge_seq == SelectBetween(G2.es, v0, v1)
    IN  IF Cardinality(edge_seq) = 0
        THEN [G2 EXCEPT !.es = Append(G2.es,
                 NewEdge(First(v0), First(v1),
                         IF weight = NoWeight THEN distance(coords0, coords1) ELSE weight))]
        ELSE G2

\* self.vs.select(name=coords)['terminal'] = terminal
SetTerminal(V, coords, terminal) ==
    [i \in 1..Len(V) |->
        IF V[i].name = coords THEN [V[i] EXCEPT !.terminal = terminal] ELSE V[i]]

\* split_edge_by_node without super().delete_edges(edge_seq)
split_edge_by_node_keep(G, orig_coords0, orig_coords1, coords, terminal) ==
    IF Len(G.vs) = 0 THEN [G EXCEPT !.err = "KeyError"]
    ELSE IF coords = orig_coords0
    THEN [G EXCEPT !.vs = SetTerminal(G.vs, orig_coords0, terminal)]
    ELSE IF coords = orig_coords1
    THEN [G EXCEPT !.vs = SetTerminal(G.vs, orig_coords1, terminal)]
    ELSE IF Cardinality(SelectName(G.vs, orig_coords0)) # 1
            \/ Cardinality(SelectName(G.vs, orig_coords1)) # 1
         THEN [G EXCEPT !.err = "AssertionError"]
         ELSE add_edge(add_edge(G, orig_coords0, coords, FALSE, terminal, NoWeight),
                       coords, orig_coords1, terminal, FALSE, NoWeight)

\* PlanarGraph.split_edge_by_node; selecting by name in a graph that has no
\* vertex yet (no 'name' attribute) raises KeyError in igraph
split_edge_by_node(G, orig_coords0, orig_coords1, coords, terminal) ==
    IF Len(G.vs) = 0 THEN [G EXCEPT !.err = "KeyError"]
    ELSE IF coords = orig_coords0
    THEN [G EXCEPT !.vs = SetTerminal(G.vs, orig_coords0, terminal)]
    ELSE IF coords = orig_coords1
    THEN [G EXCEPT !.vs = SetTerminal(G.vs, orig_coords1, terminal)]
    ELSE LET orig_vtx0 == SelectName(G.vs, orig_coords0)
             orig_vtx1 == SelectName(G.vs, orig_coords1)
         IN  IF Cardinality(orig_vtx0) # 1 \/ Cardinality(orig_vtx1) # 1
             THEN [G EXCEPT !.err = "AssertionError"]
             ELSE LET edge_seq == SelectBetween(G.es, orig_vtx0, orig_vtx1)
                      G1 == [G EXCEPT !.es = DeleteEdges(G.es, edge_seq)]
                      G2 == add_edge(G1, orig_coords0, coords, FALSE, terminal, NoWeight)
                  IN  IF G2.err # "ok" THEN G2
                      ELSE add_edge(G2, coords, orig_coords1, terminal, FALSE, NoWeight)

(***************************************************************************)
(* Geometry.  The model evaluates it on segments parallel to an axis with  *)
(* integer endpoints, where every floating-point value of the code is an   *)
(* exact integer (or an exact half, kept by doubling).                     *)
(***************************************************************************)
AxisParallel(edge_tuple) ==
    /\ edge_tuple[1] # edge_tuple[2]
    /\ \/ edge_tuple[1][1] = edge_tuple[2][1]
       \/ edge_tuple[1][2] = edge_tuple[2][2]

min_distance_from_point_to_line(coords, edge_tuple) ==
    LET x1 == edge_tuple[1][1]
        y1 == edge_tuple[1][2]
        x2 == edge_tuple[2][1]
        y2 == edge_tuple[2][2]
        x0 == coords[1]
        y0 == coords[2]
        num == Abs((y2 - y1) * x0 - (x2 - x1) * y0 + x2 * y1 - y2 * x1)
        den == Sqrt((y2 - y1) * (y2 - y1) + (x2 - x1) * (x2 - x1))
    IN  num \div den

\* node_distance > max_distance, both distances from the midpoint; compared
\* on the doubled coordinates and squared, which keeps the order
node_on_edge(edge_tuple, coords) ==
    LET mid2 == <<edge_tuple[1][1] + edge_tuple[2][1], edge_tuple[1][2] + edge_tuple[2][2]>>
        max_distance == SumSq(<<2 * edge_tuple[1][1], 2 * edge_tuple[1][2]>>, mid2)
        node_distance == SumSq(<<2 * coords[1], 2 * coords[2]>>, mid2)
    IN  ~(node_distance > max_distance)

\* the outcome of "assert False, 'Vector projection failed'"
Failed == <<>>

\* vector_projection
vector_projection(edge_tuple, coords) ==
    LET b_vector == <<edge_tuple[1][1] - edge_tuple[2][1], edge_tuple[1][2] - edge_tuple[2][2]>>
        norm == Sqrt(b_vector[1] * b_vector[1] + b_vector[2] * b_vector[2])
        b_unit == <<Sign(b_vector[1]) * (Abs(b_vector[1]) \div norm),
                    Sign(b_vector[2]) * (Abs(b_vector[2]) \div norm)>>
        b_normal == <<-b_unit[2], b_unit[1]>>
        min_distance == min_distance_from_point_to_line(coords, edge_tuple)
        proj1 == <<coords[1] + min_distance * b_normal[1], coords[2] + min_distance * b_normal[2]>>
        proj2 == <<coords[1] - min_distance * b_normal[1], coords[2] - min_distance * b_normal[2]>>
    IN  IF min_distance_from_point_to_line(proj1, edge_tuple) = 0 THEN proj1
        ELSE IF min_distance_from_point_to_line(proj2, edge_tuple) = 0 THEN proj2
        ELSE Failed

\* PlanarGraph.closest_point_to_node; the two distances are compared squared
closest_point_to_node(edge_tuple, coords) ==
    LET projected_node == vector_projection(edge_tuple, coords) IN
    IF projected_node = Failed THEN Failed
    ELSE IF node_on_edge(edge_tuple, projected_node)
    THEN projected_node
    ELSE IF SumSq(edge_tuple[1], coords) <= SumSq(edge_tuple[2], coords)
         THEN edge_tuple[1]
         ELSE edge_tuple[2]

\* PlanarGraph.edge_to_coords
edge_to_coords(G, edge) == <<G.vs[edge.source].name, G.vs[edge.target].name>>

\* np.argmin: the first position of the minimum
ArgMin(seq) == CHOOSE i \in 1..Len(seq) :
    /\ \A j \in 1..Len(seq) : seq[i] <= seq[j]
    /\ \A j \in 1..(i - 1) : seq[j] > seq[i]

\* the edges the loop of add_node_to_closest_edge does not skip, in order
NonLoopEdges(G) == SelectSeq(G.es, LAMBDA e : ~IsLoop(e))

\* PlanarGraph.add_node_to_closest_edge; closest_edge_distances holds the
\* squares of the code's distances, which have the same argmin
add_node_to_closest_edge(G, coords, terminal) ==
    LET examined == NonLoopEdges(G)
        closest_edge_nodes == [j \in 1..Len(examined) |->
            closest_point_to_node(edge_to_coords(G, examined[j]), coords)]
    IN  IF \E j \in 1..Len(examined) : closest_edge_nodes[j] = Failed
        THEN [G EXCEPT !.err = "AssertionError"]
        ELSE IF Len(examined) = 0
        THEN [G EXCEPT !.err = "ValueError"]
        ELSE LET closest_edge_distances == [j \in 1..Len(examined) |->
                     SumSq(closest_edge_nodes[j], coords)]
                 argmin == ArgMin(closest_edge_distances)
                 closest_node == closest_edge_nodes[argmin]
                 closest_edge == edge_to_coords(G, G.es[argmin])
             IN  split_edge_by_node(G, closest_edge[1], closest_edge[2], closest_node, terminal)

(***************************************************************************)
(* The PlanarGraph as a state machine: one action per public operation.    *)
(* err is the outcome of the last call ("ok" or the exception raised),     *)
(* last its name.                                                          *)
(***************************************************************************)
Graph == [vs |-> vs, es |-> es, err |-> "ok"]

\* PlanarGraph.__init__
Init ==
    /\ vs = <<>>
    /\ es = <<>>
    /\ err = "ok"
    /\ last = "init"
    /\ steiner_edge_idxs = {}

AddNode(coords, terminal) ==
    /\ last' = "add_node"
    /\ \E G \in {add_node(Graph, coords, terminal)} :
        /\ vs' = G.vs
        /\ es' = G.es
        /\ err' = G.err
    /\ UNCHANGED steiner_edge_idxs

AddEdge(coords0, coords1, terminal0, terminal1, weight) ==
    /\ last' = "add_edge"
    /\ \E G \in {add_edge(Graph, coords0, coords1, terminal0, terminal1, weight)} :
        /\ Len(G.es) <= MaxEdges
        /\ vs' = G.vs
        /\ es' = G.es
        /\ err' = G.err
    /\ UNCHANGED steiner_edge_idxs

SplitEdgeByNode(orig_coords0, orig_coords1, coords, terminal) ==
    /\ last' = "split_edge_by_node"
    /\ \E G \in {split_edge_by_node(Graph, orig_coords0, orig_coords1, coords, terminal)} :
        /\ Len(G.es) <= MaxEdges
        /\ vs' = G.vs
        /\ es' = G.es
        /\ err' = G.err
    /\ UNCHANGED steiner_edge_idxs

AddNodeToClosestEdge(coords, terminal) ==
    /\ last' = "add_node_to_closest_edge"
    /\ \E G \in {add_node_to_closest_edge(Graph, coords, terminal)} :
        /\ Len(G.es) <= MaxEdges
        /\ vs' = G.vs
        /\ es' = G.es
        /\ err' = G.err
    /\ UNCHANGED steiner_edge_idxs

Next ==
    \/ \E coords \in LinePoints, terminal \in BOOLEAN : AddNode(coords, terminal)
    \/ \E coords0 \in LinePoints, coords1 \in LinePoints, terminal0 \in BOOLEAN,
          terminal1 \in BOOLEAN, weight \in DefaultWeights :
            AddEdge(coords0, coords1, terminal0, terminal1, weight)
    \/ \E orig_coords0 \in LinePoints, orig_coords1 \in LinePoints, coords \in LinePoints,
          terminal \in BOOLEAN :
            SplitEdgeByNode(orig_coords0, orig_coords1, coords, terminal)
    \/ \E coords \in QueryPoints, terminal \in BOOLEAN : AddNodeToClosestEdge(coords, terminal)

\* every operation of the PlanarGraph, edges weighted by their length
Spec == Init /\ [][Next]_vars

WeightedNext ==
    \/ \E coords \in LinePoints, terminal \in BOOLEAN : AddNode(coords, terminal)
    \/ \E coords0 \in LinePoints, coords1 \in LinePoints, terminal0 \in BOOLEAN,
          terminal1 \in BOOLEAN, weight \in CallWeights :
            AddEdge(coords0, coords1, terminal0, terminal1, weight)

\* graph construction by add_node and add_edge, with and without weights
WeightedSpec == Init /\ [][WeightedNext]_vars

(***************************************************************************)
(* Steiner approximation.  The shortest-path and spanning-tree primitives  *)
(* belong to igraph / networkx: a shortest path is any path of minimum     *)
(* total weight, a minimum spanning tree any spanning tree of minimum      *)
(* total weight.  A path is the sequence of its edge indices.              *)
(***************************************************************************)
\* the endpoint of edge e that is not u
Other(e, u) == IF e.source = u THEN e.target ELSE e.source

RECURSIVE SimplePaths(_, _, _, _)
\* the simple paths of G from u to v that avoid the vertices of seen
SimplePaths(G, u, v, seen) ==
    IF u = v THEN {<<>>}
    ELSE UNION {{<<k>> \o p : p \in SimplePaths(G, Other(G.es[k], u), v,
                                                 seen \cup {Other(G.es[k], u)})} :
                k \in {j \in 1..Len(G.es) :
                         /\ ~IsLoop(G.es[j])
                         /\ u \in {G.es[j].source, G.es[j].target}
                         /\ Other(G.es[j], u) \notin seen}}

RECURSIVE SumWeights(_, _)
\* reduce(lambda x,y : x+y, map(lambda x: x['weight'], path_edges)) for a
\* non-empty path; 0 for the empty one
SumWeights(G, path) ==
    IF path = <<>> THEN 0
    ELSE G.es[Head(path)].weight + SumWeights(G, Tail(path))

\* the set of the edges of a path
PathEdges(path) == Range(path)

\* get_shortest_paths that returns any path, not a shortest one
AnyPaths(G, u, v) == SimplePaths(G, u, v, {u})

\* G.get_shortest_paths(u, v, weights='weight', output='epath'): the paths
\* it may return; none when v cannot be reached from u
ShortestPaths(G, u, v) ==
    LET all == SimplePaths(G, u, v, {u}) IN
    {p \in all : \A q \in all : SumWeights(G, p) <= SumWeights(G, q)}

\* combinations(terminal_vertices, 2), as pairs of vertex indices
Combinations(T) == {pr \in T \X T : pr[1] < pr[2]}

\* the vertices a set of closure-graph edges (pairs) reaches from r
RECURSIVE ReachByPairs(_, _)
ReachByPairs(pairs, R) ==
    LET more == {w \in UNION {{pr[1], pr[2]} : pr \in pairs} :
                   \E pr \in pairs : \/ pr[1] \in R /\ pr[2] = w
                                     \/ pr[2] \in R /\ pr[1] = w}
    IN  IF more \subseteq R THEN R ELSE ReachByPairs(pairs, R \cup more)

\* the spanning trees of the complete graph over T
SpanningTrees(T) ==
    IF Cardinality(T) < 2 THEN {{}}
    ELSE {tr \in SUBSET Combinations(T) :
            /\ Cardinality(tr) = Cardinality(T) - 1
            /\ ReachByPairs(tr, {CHOOSE r \in T : TRUE}) = T}

\* path_idxs for every pair of combinations(terminal_vertices, 2): the
\* pair with the paths get_shortest_paths may return for it
PathTable(G, T) ==
    {<<pr, ShortestPaths(G, pr[1], pr[2])>> : pr \in Combinations(T)}

\* the closure graph H of igraph_steiner_tree: one edge <<pair, weight,
\* paths>> per pair of terminals, weight the shortest-path distance and
\* paths the shortest paths that may be its 'path'
ClosureGraph(G, paths) ==
    {<<e[1], SumWeights(G, CHOOSE p \in e[2] : TRUE), e[2]>> : e \in paths}

\* the edges of H between the pairs of tr
EdgesOf(H, tr) == {h \in H : h[1] \in tr}

RECURSIVE TotalWeight(_)
\* the total weight of a set of edges of H
TotalWeight(hs) ==
    IF hs = {} THEN 0
    ELSE LET h == CHOOSE h \in hs : TRUE IN h[2] + TotalWeight(hs \ {h})

\* H.spanning_tree(weights='weight', return_tree=False): the spanning trees
\* of H of minimum total weight
MinimumSpanningTrees(H, T) ==
    LET weighed == {<<tr, TotalWeight(EdgesOf(H, tr))>> : tr \in SpanningTrees(T)} IN
    {t[1] : t \in {t \in weighed : \A other \in weighed : t[2] <= other[2]}}

RECURSIVE PathChoices(_)
\* one path for every edge of hs: the sets of original-graph edges that
\* chain.from_iterable(H.es[i]['path'] ...) may hold
PathChoices(hs) ==
    IF hs = {} THEN {{}}
    ELSE LET h == CHOOSE h \in hs : TRUE IN
         {PathEdges(p) \cup rest : p \in h[3], rest \in PathChoices(hs \ {h})}

\* the edge sets the MST of the closure graph H and the path stitching may
\* select: the distinct elements of steiner_edge_idxs
SteinerEdgeSets(H, T) ==
    UNION {PathChoices(EdgesOf(H, mst_edge_idxs)) :
             mst_edge_idxs \in MinimumSpanningTrees(H, T)}

\* get_shortest_paths gave an empty path for some pair of terminals
EmptyPath(paths) == \E e \in paths : e[2] = {}

\* igraph_steiner_tree that returns the empty selection when a pair of
\* terminals has no path
igraph_steiner_tree_partial(G, T) ==
    LET paths == PathTable(G, T) IN
    IF EmptyPath(paths)
    THEN {[err |-> "ok", idxs |-> {}]}
    ELSE {[err |-> "ok", idxs |-> idxs] : idxs \in SteinerEdgeSets(ClosureGraph(G, paths), T)}

\* igraph_steiner_tree: its possible outcomes.  reduce() over the empty
\* path of an unreachable pair raises TypeError; otherwise idxs is the set
\* of the edges of the returned steiner_edge_idxs
igraph_steiner_tree(G, T) ==
    LET paths == PathTable(G, T) IN
    IF EmptyPath(paths)
    THEN {[err |-> "TypeError", idxs |-> {}]}
    ELSE {[err |-> "ok", idxs |-> idxs] : idxs \in SteinerEdgeSets(ClosureGraph(G, paths), T)}

\* self.vs.select(terminal_eq=True)
TerminalNodes(G) == {i \in 1..Len(G.vs) : G.vs[i].terminal = TRUE}

\* PlanarGraph.steiner_tree_approx
SteinerTreeApprox ==
    /\ Len(vs) > 0
    /\ \E R \in igraph_steiner_tree(Graph, TerminalNodes(Graph)) :
         /\ err' = R.err
         /\ IF R.err # "ok"
            THEN UNCHANGED <<es, steiner_edge_idxs>>
            ELSE /\ es' = [i \in 1..Len(es) |->
                             IF i \in R.idxs THEN [es[i] EXCEPT !.steiner = TRUE]
                             ELSE es[i]]
                 /\ steiner_edge_idxs' = R.idxs
    /\ last' = "steiner_tree_approx"
    /\ UNCHANGED vs

\* metric_closure: its connectivity check while processing the first node
\* (Gnodes - set(distance)); the closure itself is ClosureGraph
metric_closure(G) ==
    IF \E v \in 2..Len(G.vs) : ShortestPaths(G, 1, v) = {}
    THEN "NetworkXError"
    ELSE "ok"

\* steiner_tree of steiner_tree.py: its possible outcomes, idxs the edges
\* of the returned subgraph
steiner_tree(G, terminal_nodes) ==
    IF metric_closure(G) # "ok"
    THEN {[err |-> "NetworkXError", idxs |-> {}]}
    ELSE {[err |-> "ok", idxs |-> idxs] :
            idxs \in SteinerEdgeSets(ClosureGraph(G, PathTable(G, terminal_nodes)),
                                     terminal_nodes)}

\* a call of steiner_tree on the same weighted graph and terminals; the
\* edges of the returned subgraph are kept in steiner_edge_idxs
SteinerTree ==
    /\ Len(vs) > 0
    /\ \E R \in steiner_tree(Graph, TerminalNodes(Graph)) :
         /\ err' = R.err
         /\ IF R.err # "ok"
            THEN UNCHANGED steiner_edge_idxs
            ELSE steiner_edge_idxs' = R.idxs
    /\ last' = "steiner_tree"
    /\ UNCHANGED <<vs, es>>

(***************************************************************************)
(* The graphs the Steiner approximation is run on: five vertices, and any  *)
(* sub-collection of the edges of a triangle with two pendant edges at one *)
(* corner, each with an explicit weight in 1..MaxWeight (built by add_node *)
(* and add_edge(..., weight=w) calls in this order).  The terminals are    *)
(* any of the four vertices around that corner.                            *)
(***************************************************************************)
SteinerPoints == <<(<<0, 0>>), (<<1, 0>>), (<<1, 1>>), (<<2, 1>>), (<<1, 2>>)>>

GroundEdges == <<(<<1, 2>>), (<<2, 3>>), (<<1, 3>>), (<<3, 4>>), (<<3, 5>>)>>

RECURSIVE BuildEdges(_, _)
\* the edges of the ground graph that w gives a weight, in order
BuildEdges(w, k) ==
    IF k = 0 THEN <<>>
    ELSE IF w[k] = NoWeight THEN BuildEdges(w, k - 1)
    ELSE Append(BuildEdges(w, k - 1),
                NewEdge(GroundEdges[k][1], GroundEdges[k][2], w[k]))

\* the vertices that may be flagged terminal: all but the corner that
\* carries the pendant edges
TerminalCandidates == {i \in 1..Len(SteinerPoints) : i # GroundEdges[Len(GroundEdges)][1]}

SteinerInit ==
    /\ \E T \in SUBSET TerminalCandidates :
         vs = [i \in 1..Len(SteinerPoints) |->
                 [name |-> SteinerPoints[i], terminal |-> i \in T]]
    /\ \E w \in [1..Len(GroundEdges) -> {NoWeight} \cup (1..MaxWeight)] :
         es = BuildEdges(w, Len(GroundEdges))
    /\ err = "ok"
    /\ last = "init"
    /\ steiner_edge_idxs = {}

SteinerNext == SteinerTreeApprox \/ SteinerTree

SteinerSpec == SteinerInit /\ [][SteinerNext]_vars

(***************************************************************************)
(* Properties.                                                             *)
(***************************************************************************)
\* the vertices joined to a vertex of R by the edges S of E
RECURSIVE ReachByEdges(_, _, _)
ReachByEdges(E, S, R) ==
    LET more == {v \in UNION {{E[k].source, E[k].target} : k \in S} :
                   \E k \in S : \/ E[k].source \in R /\ E[k].target = v
                                \/ E[k].target \in R /\ E[k].source = v}
    IN  IF more \subseteq R THEN R ELSE ReachByEdges(E, S, R \cup more)

\* the endpoints of the edges S
Touched(E, S) == UNION {{E[k].source, E[k].target} : k \in S}

\* the edges S join all the vertices of T
Connects(E, S, T) ==
    \A u \in T : T \subseteq ReachByEdges(E, S, {u})

\* the edges S form a tree: connected, and one edge less than vertices
IsTree(E, S) ==
    /\ S \subseteq 1..Len(E)
    /\ S # {}
    /\ Connects(E, S, Touched(E, S))
    /\ Cardinality(S) = Cardinality(Touched(E, S)) - 1

RECURSIVE WeightOf(_, _)
\* the total weight of the distinct edges S
WeightOf(E, S) ==
    IF S = {} THEN 0
    ELSE LET k == CHOOSE k \in S : TRUE IN E[k].weight + WeightOf(E, S \ {k})

Terminals == TerminalNodes(Graph)

AllEdges == 1..Len(es)

\* a Steiner approximation has returned its selection, on a connected graph
\* with at least two terminals
SteinerRan ==
    /\ last \in {"steiner_tree_approx", "steiner_tree"}
    /\ err = "ok"
    /\ Cardinality(Terminals) >= 2
    /\ Connects(es, AllEdges, 1..Len(vs))

SteinerOptimum ==
    LET weights == {WeightOf(es, S) : S \in {S \in SUBSET AllEdges :
                       IsTree(es, S) /\ Terminals \subseteq Touched(es, S)}}
    IN  CHOOSE w \in weights : \A x \in weights : w <= x

\* C2: the weight of the selected edges is at most (2 - 2/|T|) times the
\* weight of a minimum tree joining the terminals (multiplied out by |T|).
C2Theorem ==
    SteinerRan =>
        Cardinality(Terminals) * WeightOf(es, steiner_edge_idxs)
            <= (2 * Cardinality(Terminals) - 2) * SteinerOptimum

\* the approximation returned a selection heavier than the optimum for
\* three terminals
C2Witness ==
    /\ SteinerRan
    /\ Cardinality(Terminals) = 3
    /\ WeightOf(es, steiner_edge_idxs) > SteinerOptimum

\* some terminal is unreachable from another terminal
TerminalUnreachable ==
    \E u \in Terminals, v \in Terminals : v \notin ReachByEdges(es, AllEdges, {u})

\* C3: a Steiner approximation run while some terminal is unreachable from
\* another fails with an error, sets no steiner flag and returns nothing.
C3Theorem ==
    [][(TerminalUnreachable /\ last' \in {"steiner_tree_approx", "steiner_tree"}) =>
          (err' # "ok" /\ es' = es /\ steiner_edge_idxs' = steiner_edge_idxs)]_vars

\* steiner_tree_approx has failed on terminals in separate components, no
\* steiner flag set
C3Witness ==
    /\ last = "steiner_tree_approx"
    /\ err = "TypeError"
    /\ TerminalUnreachable
    /\ \A k \in AllEdges : ~es[k].steiner

\* C1's failing input: unit edges (0,0)-(1,0) and (1,0)-(1,1), the edge
\* (0,0)-(1,1) of weight 2, pendant edges of weight 3, terminals (0,0),
\* (2,1), (1,2): the spanning tree of the closure graph is unique
C1FailingInput ==
    /\ Len(es) = 5
    /\ <<es[1].weight, es[2].weight, es[3].weight, es[4].weight, es[5].weight>>
          = <<1, 1, 2, 3, 3>>
    /\ Terminals = {1, 4, 5}

\* the names of the vertices of V
Names(V) == {V[i].name : i \in 1..Len(V)}

\* the edges of (V, E) between the coordinates a and b
EdgesBetween(V, E, a, b) ==
    {k \in 1..Len(E) : {V[E[k].source].name, V[E[k].target].name} = {a, b}}

HasEdge(V, E, a, b) == EdgesBetween(V, E, a, b) # {}

\* the closest point of edge k to coords, and its squared distance
ClosestOn(k, coords) == closest_point_to_node(edge_to_coords(Graph, es[k]), coords)

ClosestDistance(k, coords) == SumSq(ClosestOn(k, coords), coords)

\* the non-self-loop edge closest to coords, the first one on ties
ClosestEdge(coords) ==
    CHOOSE k \in AllEdges :
        /\ ~IsLoop(es[k])
        /\ \A j \in AllEdges : ~IsLoop(es[j]) =>
              /\ ClosestDistance(k, coords) <= ClosestDistance(j, coords)
              /\ j < k => ClosestDistance(j, coords) > ClosestDistance(k, coords)

\* the graph after split_edge_by_node on the closest edge at its closest point
SplitAtClosest(coords, terminal) ==
    LET edge_tuple == edge_to_coords(Graph, es[ClosestEdge(coords)]) IN
    split_edge_by_node(Graph, edge_tuple[1], edge_tuple[2],
                       ClosestOn(ClosestEdge(coords), coords), terminal)

\* C4: on a graph with a non-self-loop edge, add_node_to_closest_edge splits
\* the closest non-self-loop edge at the closest point computed on it.
C4Claim ==
    [][\A coords \in QueryPoints, terminal \in BOOLEAN :
          (/\ last' = "add_node_to_closest_edge"
           /\ Len(NonLoopEdges(Graph)) > 0
           /\ AddNodeToClosestEdge(coords, terminal)) =>
              /\ vs' = SplitAtClosest(coords, terminal).vs
              /\ es' = SplitAtClosest(coords, terminal).es
              /\ err' = SplitAtClosest(coords, terminal).err]_vars

\* the two edges a split at p leaves, as unordered coordinate pairs
SplitPairs(e0, e1, p) == {{e0, p}, {p, e1}}

\* the split edges that do not exist yet
NewPairs(e0, e1, p) ==
    {pr \in SplitPairs(e0, e1, p) :
        \A k \in AllEdges : {vs[es[k].source].name, vs[es[k].target].name} # pr}

\* C5 as stated: in every reachable graph, split_edge_by_node of an existing
\* edge between distinct endpoints e0 and e1 at another point p gives a
\* graph G without the edge e0-e1, with the edges e0-p and p-e1, and with
\* exactly one edge more.
C5Claim ==
    \A e0 \in LinePoints, e1 \in LinePoints :
        (e0 # e1 /\ HasEdge(vs, es, e0, e1)) =>
        \A p \in LinePoints \ {e0, e1}, terminal \in BOOLEAN :
        \A G \in {split_edge_by_node(Graph, e0, e1, p, terminal)} :
            /\ G.err = "ok"
            /\ ~HasEdge(G.vs, G.es, e0, e1)
            /\ HasEdge(G.vs, G.es, e0, p)
            /\ HasEdge(G.vs, G.es, p, e1)
            /\ Len(G.es) = Len(es) + 1

\* C5 amended: in every reachable graph, split_edge_by_node of an existing
\* edge e0-e1 at another point p gives a graph G without the edge e0-e1 and
\* with the edges e0-p and p-e1; the number of edges grows by the number of
\* those two edges that did not exist yet, less the one removed (by exactly
\* one when e0 # e1 and p was adjacent to neither endpoint).
C5Theorem ==
    \A e0 \in LinePoints, e1 \in LinePoints :
        HasEdge(vs, es, e0, e1) =>
        \A p \in LinePoints \ {e0, e1}, terminal \in BOOLEAN :
        \A G \in {split_edge_by_node(Graph, e0, e1, p, terminal)} :
            /\ G.err = "ok"
            /\ ~HasEdge(G.vs, G.es, e0, e1)
            /\ HasEdge(G.vs, G.es, e0, p)
            /\ HasEdge(G.vs, G.es, p, e1)
            /\ Len(G.es) = Len(es) - 1 + Cardinality(NewPairs(e0, e1, p))
            /\ (e0 # e1 /\ ~HasEdge(vs, es, e0, p) /\ ~HasEdge(vs, es, p, e1))
                  => Len(G.es) = Len(es) + 1

\* a split has left the two halves (0,0)-(1,0) and (1,0)-(2,0) and no edge
\* (0,0)-(2,0)
C5Witness ==
    /\ last = "split_edge_by_node"
    /\ err = "ok"
    /\ Len(es) = 2
    /\ HasEdge(vs, es, <<0, 0>>, <<1, 0>>)
    /\ HasEdge(vs, es, <<1, 0>>, <<2, 0>>)
    /\ vs[Len(vs)].name = <<1, 0>>

\* C6: a split at another point p of an edge between distinct endpoints e0
\* and e1 that the graph does not hold fails with an error and leaves
\* vertices and edges unchanged.
C6Claim ==
    [][\A e0 \in LinePoints, e1 \in LinePoints, p \in LinePoints, terminal \in BOOLEAN :
          (/\ last' = "split_edge_by_node"
           /\ e0 # e1
           /\ p \notin {e0, e1}
           /\ SplitEdgeByNode(e0, e1, p, terminal)
           /\ ~(e0 \in Names(vs) /\ e1 \in Names(vs) /\ HasEdge(vs, es, e0, e1))) =>
              /\ err' # "ok"
              /\ vs' = vs
              /\ es' = es]_vars

\* C7: in every graph reachable by add_node and add_edge calls, a further
\* add_edge on a pair that already has an edge changes no edge (the weight
\* of the first call stays); on a pair without one it appends one edge with
\* the supplied weight, or the Euclidean distance when none is supplied;
\* afterwards the pair has exactly one edge.
C7Theorem ==
    \A c0 \in LinePoints, c1 \in LinePoints, t0 \in BOOLEAN, t1 \in BOOLEAN,
       w \in CallWeights :
        \A G \in {add_edge(Graph, c0, c1, t0, t1, w)} :
            /\ G.err = "ok"
            /\ Cardinality(EdgesBetween(G.vs, G.es, c0, c1)) = 1
            /\ IF HasEdge(vs, es, c0, c1)
               THEN G.es = es
               ELSE /\ Len(G.es) = Len(es) + 1
                    /\ SubSeq(G.es, 1, Len(es)) = es
                    /\ G.es[Len(G.es)].weight =
                          (IF w = NoWeight THEN distance(c0, c1) ELSE w)

\* add_edge has run and the only edge (0,0)-(2,0) carries an explicit
\* weight that is not its length
C7Witness ==
    /\ last = "add_edge"
    /\ Cardinality(EdgesBetween(vs, es, <<0, 0>>, <<2, 0>>)) = 1
    /\ \A k \in EdgesBetween(vs, es, <<0, 0>>, <<2, 0>>) :
          es[k].weight = MaxWeight /\ es[k].weight # distance(<<0, 0>>, <<2, 0>>)

\* C8: no edge of the graph joins a vertex to itself.
C8Claim == \A k \in AllEdges : es[k].source # es[k].target

\* vertex coordinates are unique and edge endpoints are vertices
C9Invariant ==
    /\ \A i \in 1..Len(vs), j \in 1..Len(vs) : vs[i].name = vs[j].name => i = j
    /\ \A k \in AllEdges : es[k].source \in 1..Len(vs) /\ es[k].target \in 1..Len(vs)

\* add_node on a coordinate already present only sets that vertex's flag
C9AddNodeExisting ==
    \A coords \in LinePoints, terminal \in BOOLEAN :
        (last' = "add_node" /\ coords \in Names(vs) /\ AddNode(coords, terminal)) =>
            /\ es' = es
            /\ Len(vs') = Len(vs)
            /\ \A i \in 1..Len(vs) :
                  /\ vs'[i].name = vs[i].name
                  /\ vs'[i].terminal =
                        (IF vs[i].name = coords THEN terminal ELSE vs[i].terminal)

\* C9: coordinates stay unique, edge endpoints are vertices, and add_node on
\* an existing coordinate adds nothing and only sets that vertex's flag.
C9Theorem == []C9Invariant /\ [][C9AddNodeExisting]_vars

\* add_node has run on a graph none of whose vertices is isolated: the
\* coordinate it was given was already a vertex
C9Witness ==
    /\ last = "add_node"
    /\ err = "ok"
    /\ Len(vs) >= 2
    /\ \A i \in 1..Len(vs) : \E k \in AllEdges : i \in {es[k].source, es[k].target}
    /\ \E i \in 1..Len(vs) : vs[i].terminal

\* the terminal flags of all vertices but the one at q are kept
FlagsKeptExcept(q) ==
    \A i \in 1..Len(vs) : vs[i].name # q => vs'[i].terminal = vs[i].terminal

\* C10: a split of an existing edge between distinct endpoints e0 and e1
\* at a point p that is no endpoint changes the terminal flag of p only,
\* and add_node_to_closest_edge that of the closest point only.
C10Claim ==
    [][/\ \A e0 \in LinePoints, e1 \in LinePoints, p \in LinePoints, terminal \in BOOLEAN :
            (/\ last' = "split_edge_by_node"
             /\ e0 # e1
             /\ p \notin {e0, e1}
             /\ HasEdge(vs, es, e0, e1)
             /\ SplitEdgeByNode(e0, e1, p, terminal)) =>
                FlagsKeptExcept(p)
       /\ \A coords \in QueryPoints, terminal \in BOOLEAN :
            (/\ last' = "add_node_to_closest_edge"
             /\ Len(NonLoopEdges(Graph)) > 0
             /\ AddNodeToClosestEdge(coords, terminal)) =>
                FlagsKeptExcept(ClosestOn(ClosestEdge(coords), coords))]_vars

====
